---- MODULE Spec2Model ----
(***************************************************************************)
(* Model of the helix HTTP service (src/helix): settings, the auth gate,   *)
(* the durable users table with the trial window, and the /v1/chat and     *)
(* /v1/me handlers, run by concurrent request handlers; the request-id     *)
(* middleware, the provider adapter and the prompt composition; and the    *)
(* offline responder (src/triple_helix_engine.py).                         *)
(*                                                                         *)
(* Conventions.  Python None of an optional string is the string NULL; an  *)
(* optional datetime or optional ISO text is <<>> (None) or <<v>>.  A      *)
(* datetime is the integer number of days since the clock's origin, the    *)
(* ISO text of an instant t is the record [iso |-> t].  Texts the code     *)
(* trims, joins or searches are strings; an optional one is <<>> or <<s>>. *)
(***************************************************************************)
EXTENDS Integers, Sequences, FiniteSets, TLC

\* --------------------------------------------------------------------------
\* Bounds
\* --------------------------------------------------------------------------
MaxTime == 2

\* the longest list of prior turns a chat request carries
MaxTurns == 2

\* the longest output list of a response of the Responses API
MaxItems == 2

\* the longest list of context documents
MaxDocs == 3

Procs == {"r1", "r2"}

NULL == "NULL"

\* --------------------------------------------------------------------------
\* Values of the environment
\* --------------------------------------------------------------------------
Secret == "s3cret"

\* Credentials a caller may put after "Bearer " (already split and stripped).
Creds == {"", "s3cret", "wrong", "tokA", "tokA0", "tokN"}

\* Authorization header: <<>> when absent, else <<scheme, credential>>.
Authorizations == {<<>>, <<"Basic", "s3cret">>} \cup {<<"Bearer", c>> : c \in Creds}

XApiKeys == {NULL, "wrong", "s3cret"}

Endpoints == {"chat", "me"}

Messages == {"hi", "Help us fund a pilot"}

\* A dict is a function on its keys, {} is the empty function <<>>; an
\* optional dict is <<>> (None) or <<d>>.
EmptyDict == <<>>

\* A request: the auth headers, the X-Request-ID header (NULL when absent)
\* and the fields of the ChatRequest body; GET /v1/me has no body.
Request(endpoint, authorization, x_api_key, message, x_request_id, metadata, messages) ==
    [endpoint |-> endpoint, authorization |-> authorization,
     x_api_key |-> x_api_key, message |-> message,
     x_request_id |-> x_request_id, metadata |-> metadata, messages |-> messages,
     system_prompt |-> NULL, context_documents |-> <<>>]

Requests ==
    { Request("chat", a, k, m, NULL, EmptyDict, <<>>) :
        a \in Authorizations, k \in XApiKeys, m \in Messages }
    \cup { Request("me", a, k, "", NULL, EmptyDict, <<>>) :
             a \in Authorizations, k \in XApiKeys }

\* the requests the concurrent handlers are given
ConcurrentRequests ==
    { r \in Requests :
        /\ r.authorization \in {<<"Bearer", "tokA">>, <<"Bearer", "tokA0">>}
        /\ r.x_api_key = NULL
        /\ r.endpoint = "chat" /\ r.message = "hi" }

Single == "r1"

NoRequest == Request("none", <<>>, NULL, "", NULL, EmptyDict, <<>>)

\* --------------------------------------------------------------------------
\* Settings (src/helix/config.py)
\* --------------------------------------------------------------------------
SettingsSet ==
    { s \in [auth_mode : {"", "public", "api_key", "firebase", "ldap"},
             access_mode : {"public", "private"},
             api_key : {"", Secret},
             dry_run : BOOLEAN,
             trial_days : {-1, 0, 1},
             openai_api_key : {"", "sk-test"}] :
        \* knobs a mode never reads stay at their defaults
        /\ s.access_mode = "private" => s.auth_mode = ""
        /\ s.auth_mode = "firebase" => s.api_key = ""
        /\ s.auth_mode # "firebase" => s.trial_days = 1
        /\ s.auth_mode \in {"public", "ldap"} => s.api_key = ""
        \* with the users table in play, dry-run is on exactly when no
        \* provider key is configured
        /\ s.auth_mode = "firebase" => (s.dry_run <=> s.openai_api_key = "")
        \* a negative trial length is tried in dry-run, a zero one live
        /\ s.trial_days = -1 => s.dry_run
        /\ s.trial_days = 0 => ~s.dry_run }

effective_auth_mode(s) ==
    IF s.auth_mode # "" THEN s.auth_mode
    ELSE IF s.access_mode = "private" THEN "api_key" ELSE "public"

VARIABLES
    settings,   \* the immutable Settings snapshot
    now,        \* the wall clock (_utc_now), in days
    users,      \* the rows of the users table
    pc,         \* position of each request handler
    req,        \* the request each handler is serving
    started,    \* middleware: start = time.time()
    loc,        \* locals of require_auth / get_or_create_user
    auth,       \* the AuthContext require_auth returned
    resp,       \* the response sent
    provider,   \* app.state.openai_provider: 0 = None, else the instance
    apiCalls,   \* calls of provider.generate made for the current request
    rid,        \* request_id_var: the correlation id of the request, or NULL
    hdr,        \* X-Request-ID of the response sent: <<>> absent, else <<id>>
    call,       \* the arguments chat passed to provider.generate
    extCalls,   \* the calls of the external API made for the current request
    arg,        \* the arguments of a pure function under evaluation
    out,        \* its result: <<>> before the evaluation, <<v>> after
    environ,    \* session service: os.environ
    _SESSIONS,  \* session service: the in-memory session store
    served,     \* session service: the POST /chat requests received so far
    chat_pc,    \* session service: position of each chat handler
    body,       \* session service: the ChatRequest each handler is serving
    frame,      \* session service: the locals of chat across its await
    chat_response   \* session service: the response sent

\* the variables of the service, and those of the pure-function evaluations
service ==
    <<settings, now, users, pc, req, started, loc, auth, resp, provider, apiCalls,
      rid, hdr, call, extCalls>>

\* the variables the middleware and the adapter call write
wire == <<rid, hdr, call, extCalls>>

pure == <<arg, out>>

\* the variables of the session-based service (src/api.py)
sessions == <<environ, _SESSIONS, served, chat_pc, body, frame, chat_response>>

vars == <<service, pure, sessions>>

\* --------------------------------------------------------------------------
\* Timestamps as stored text (src/helix/users.py)
\* --------------------------------------------------------------------------
_iso(dt) == IF dt = <<>> THEN <<>> ELSE <<[iso |-> dt[1]]>>

_parse_iso(v) == IF v = <<>> THEN <<>> ELSE <<v[1].iso>>

\* --------------------------------------------------------------------------
\* UserRecord (src/helix/users.py)
\* --------------------------------------------------------------------------
trial_active_NoPlanBypass(u, t) ==
    IF u.trial_ends_at = <<>> THEN FALSE ELSE t <= u.trial_ends_at[1]

trial_active_Strict(u, t) ==
    IF u.plan \in {"paid", "admin"} THEN TRUE
    ELSE IF u.trial_ends_at = <<>> THEN FALSE
    ELSE t < u.trial_ends_at[1]

trial_active_NoEndIsActive(u, t) ==
    IF u.plan \in {"paid", "admin"} THEN TRUE
    ELSE IF u.trial_ends_at = <<>> THEN TRUE
    ELSE t <= u.trial_ends_at[1]

\* UserRecord.trial_active, evaluated when the clock reads t
trial_active(u, t) ==
    IF u.plan \in {"paid", "admin"} THEN TRUE
    ELSE IF u.trial_ends_at = <<>> THEN FALSE
    ELSE t <= u.trial_ends_at[1]

_row_to_user(row) ==
    [uid |-> row.uid, email |-> row.email, name |-> row.name,
     created_at |-> _parse_iso(<<row.created_at>>)[1],
     last_seen_at |-> _parse_iso(<<row.last_seen_at>>)[1],
     plan |-> row.plan,
     trial_started_at |-> _parse_iso(row.trial_started_at),
     trial_ends_at |-> _parse_iso(row.trial_ends_at)]

\* --------------------------------------------------------------------------
\* The users table (src/helix/db.py, src/helix/users.py)
\* --------------------------------------------------------------------------
\* SELECT * FROM users WHERE uid = ?
SelectByUid(tbl, uid) == {r \in tbl : r.uid = uid}

Insert_NoPrimaryKey(tbl, row) == [ok |-> TRUE, table |-> tbl \cup {row}]

\* INSERT INTO users: uid is the PRIMARY KEY, a second row of a uid is an
\* IntegrityError and the table is left as it was.
Insert(tbl, row) ==
    IF SelectByUid(tbl, row.uid) # {}
    THEN [ok |-> FALSE, table |-> tbl]
    ELSE [ok |-> TRUE, table |-> tbl \cup {row}]

COALESCE(a, b) == IF a # NULL THEN a ELSE b

Update_Overwrite(tbl, uid, email, name, t) ==
    { IF r.uid = uid
      THEN [r EXCEPT !.email = email, !.name = name, !.last_seen_at = _iso(<<t>>)[1]]
      ELSE r : r \in tbl }

Update_NoWhere(tbl, uid, email, name, t) ==
    { [r EXCEPT !.email = COALESCE(email, r.email),
                !.name = COALESCE(name, r.name),
                !.last_seen_at = _iso(<<t>>)[1]] : r \in tbl }

Update_RestartsTrial(tbl, uid, email, name, t) ==
    { IF r.uid = uid
      THEN [r EXCEPT !.email = COALESCE(email, r.email),
                     !.name = COALESCE(name, r.name),
                     !.last_seen_at = _iso(<<t>>)[1],
                     !.plan = "trial",
                     !.trial_started_at = _iso(<<t>>),
                     !.trial_ends_at = _iso(<<t + 1>>)]
      ELSE r : r \in tbl }

\* UPDATE users SET email = COALESCE(?, email), name = COALESCE(?, name),
\*                  last_seen_at = ? WHERE uid = ?
Update(tbl, uid, email, name, t) ==
    { IF r.uid = uid
      THEN [r EXCEPT !.email = COALESCE(email, r.email),
                     !.name = COALESCE(name, r.name),
                     !.last_seen_at = _iso(<<t>>)[1]]
      ELSE r : r \in tbl }

NewRow_AlwaysTrial(uid, email, name, t, trial_days) ==
    [uid |-> uid, email |-> email, name |-> name,
     created_at |-> _iso(<<t>>)[1], last_seen_at |-> _iso(<<t>>)[1],
     plan |-> "trial",
     trial_started_at |-> _iso(<<t>>),
     trial_ends_at |-> _iso(<<t + trial_days>>)]

\* the row get_or_create_user inserts for an unseen uid
NewRow(uid, email, name, t, trial_days) ==
    [uid |-> uid, email |-> email, name |-> name,
     created_at |-> _iso(<<t>>)[1], last_seen_at |-> _iso(<<t>>)[1],
     plan |-> IF trial_days > 0 THEN "trial" ELSE "free",
     trial_started_at |-> _iso(IF trial_days > 0 THEN <<t>> ELSE <<>>),
     trial_ends_at |-> _iso(IF trial_days > 0 THEN <<t + trial_days>> ELSE <<>>)]

Max(a, b) == IF a >= b THEN a ELSE b

\* --------------------------------------------------------------------------
\* The identity-token verifier (src/helix/firebase_auth.py)
\* --------------------------------------------------------------------------
Claims(uid, email, name) ==
    [raised |-> FALSE, has_uid |-> TRUE, uid |-> uid, user_id |-> NULL,
     email |-> email, name |-> name, display_name |-> NULL]

\* firebase_admin.auth.verify_id_token: an opaque function of the token.  It
\* raises on the tokens it does not know; for "s3cret" it hands back a payload
\* with no "uid" key, for "tokN" a payload whose uid is empty.
SdkVerify(token) ==
    CASE token = "tokA"  -> Claims("u1", "a@x", "Ann")
      [] token = "tokA0" -> Claims("u1", NULL, NULL)
      [] token = "tokB"  -> Claims("u2", "b@x", NULL)
      [] token = "tokN"  -> Claims("", NULL, NULL)
      [] token = "s3cret" -> [Claims(NULL, NULL, NULL) EXCEPT !.has_uid = FALSE]
      [] OTHER -> [Claims(NULL, NULL, NULL) EXCEPT !.raised = TRUE]

\* verify_id_token: the SDK's answer, or RuntimeError when it has no "uid"
verify_id_token(token) ==
    LET decoded == SdkVerify(token)
    IN  IF decoded.raised \/ ~decoded.has_uid
        THEN [decoded EXCEPT !.raised = TRUE]
        ELSE decoded

\* --------------------------------------------------------------------------
\* The auth gate (src/helix/auth.py)
\* --------------------------------------------------------------------------
Lower(scheme) ==
    CASE scheme = "Bearer" -> "bearer"
      [] scheme = "Basic" -> "basic"
      [] OTHER -> scheme

Falsy(v) == v \in {NULL, ""}

IsBearer(authorization) ==
    authorization # <<>> /\ Lower(authorization[1]) = "bearer"

Outcome(status, detail) == [status |-> status, detail |-> detail]

Passed == Outcome(0, "")

require_api_key_SecretCheckedLast(s, authorization, x_api_key) ==
    IF effective_auth_mode(s) # "api_key" THEN Passed
    ELSE
        LET bearer == IF IsBearer(authorization) THEN authorization[2] ELSE NULL
            token == IF Falsy(bearer) /\ ~Falsy(x_api_key) THEN x_api_key ELSE bearer
        IN  IF Falsy(token) THEN Outcome(401, "Unauthorized")
            ELSE IF s.api_key = ""
            THEN Outcome(500, "HELIX_ACCESS_MODE=private but HELIX_API_KEY is not set")
            ELSE IF token # s.api_key THEN Outcome(401, "Unauthorized")
            ELSE Passed

require_api_key(s, authorization, x_api_key) ==
    IF effective_auth_mode(s) # "api_key" THEN Passed
    ELSE IF s.api_key = ""
    THEN Outcome(500, "HELIX_ACCESS_MODE=private but HELIX_API_KEY is not set")
    ELSE
        LET bearer == IF IsBearer(authorization) THEN authorization[2] ELSE NULL
            token == IF Falsy(bearer) /\ ~Falsy(x_api_key) THEN x_api_key ELSE bearer
        IN  IF Falsy(token) \/ token # s.api_key
            THEN Outcome(401, "Unauthorized")
            ELSE Passed

\* The firebase branch of require_auth up to the call of get_or_create_user:
\* either a rejection, or the uid, email and name the call gets.
Resolved(uid, email, name) ==
    [status |-> 0, detail |-> "", uid |-> uid, email |-> email, name |-> name]

Rejected(status, detail) ==
    [status |-> status, detail |-> detail, uid |-> "", email |-> NULL, name |-> NULL]

firebase_identity_TrustsEmptyUid(authorization) ==
    IF ~IsBearer(authorization) \/ authorization[2] = ""
    THEN Rejected(401, "Missing Bearer token")
    ELSE
        LET decoded == SdkVerify(authorization[2])
        IN  IF decoded.raised THEN Rejected(401, "Invalid Firebase token")
            ELSE Resolved(IF Falsy(decoded.uid) THEN "" ELSE decoded.uid,
                          decoded.email, decoded.name)

firebase_identity(authorization) ==
    IF ~IsBearer(authorization) \/ authorization[2] = ""
    THEN Rejected(401, "Missing Bearer token")
    ELSE
        LET decoded == verify_id_token(authorization[2])
        IN  IF decoded.raised THEN Rejected(401, "Invalid Firebase token")
            ELSE
                LET uid == IF ~Falsy(decoded.uid) THEN decoded.uid
                           ELSE IF ~Falsy(decoded.user_id) THEN decoded.user_id
                           ELSE ""
                    email == IF Falsy(decoded.email) THEN NULL ELSE decoded.email
                    name == IF ~Falsy(decoded.name) THEN decoded.name
                            ELSE IF ~Falsy(decoded.display_name) THEN decoded.display_name
                            ELSE NULL
                IN  IF uid = ""
                    THEN Rejected(401, "Invalid Firebase token (missing uid)")
                    ELSE Resolved(uid, email, name)

\* --------------------------------------------------------------------------
\* Responses
\* --------------------------------------------------------------------------
Response(status, error) ==
    [status |-> status, error |-> error, trial_ends_at |-> <<>>,
     text |-> "", usage |-> NULL, user |-> <<>>]

NoResponse == Response(0, "")

\* an exception no handler catches: the framework answers 500
InternalServerError == Response(500, "Internal Server Error")

NoLocals ==
    [uid |-> "", email |-> NULL, name |-> NULL, now |-> 0, trial_days |-> 0,
     row |-> FALSE, inserted |-> FALSE]

NoAuth == [mode |-> "", user |-> <<>>]

AuthContext(mode, user) == [mode |-> mode, user |-> user]

\* --------------------------------------------------------------------------
\* /v1/me and /v1/chat (src/helix/api.py)
\* --------------------------------------------------------------------------
to_public_dict(u, t) ==
    [uid |-> u.uid, email |-> u.email, name |-> u.name, plan |-> u.plan,
     trial_started_at |-> _iso(u.trial_started_at),
     trial_ends_at |-> _iso(u.trial_ends_at),
     trial_active |-> trial_active(u, t),
     trial_seconds_remaining |->
        IF u.trial_ends_at = <<>> THEN <<>>
        ELSE <<Max(0, (u.trial_ends_at[1] - t) * 86400)>>,
     created_at |-> _iso(<<u.created_at>>)[1],
     last_seen_at |-> _iso(<<u.last_seen_at>>)[1]]

me(a, t) ==
    IF a.user = <<>>
    THEN Response(401, "This endpoint requires user auth (HELIX_AUTH_MODE=firebase).")
    ELSE [Response(200, "") EXCEPT !.user = <<to_public_dict(a.user[1], t)>>]

_enforce_trial_NoEndTime(a, t) ==
    IF a.mode # "firebase" THEN NoResponse
    ELSE IF a.user = <<>> THEN Response(401, "Unauthorized")
    ELSE IF trial_active(a.user[1], t) THEN NoResponse
    ELSE Response(402, "trial_expired")

\* _enforce_trial: NoResponse when the call may go on, else the rejection
_enforce_trial(a, t) ==
    IF a.mode # "firebase" THEN NoResponse
    ELSE IF a.user = <<>> THEN Response(401, "Unauthorized")
    ELSE IF trial_active(a.user[1], t) THEN NoResponse
    ELSE [Response(402, "trial_expired")
            EXCEPT !.trial_ends_at = to_public_dict(a.user[1], t).trial_ends_at]

DryRunMarker(message) == "[dry_run] Received " \o ToString(Len(message)) \o " chars"

DryRunHint == ". Provide OPENAI_API_KEY to enable live calls."

DryRunText(message) == DryRunMarker(message) \o DryRunHint

\* chat up to the await of provider.generate: the response when the handler
\* ends before it (done), the provider cached in app.state afterwards, and
\* whether provider.generate is called.
ChatResult(done, response, prov) ==
    [done |-> done, resp |-> response, provider |-> prov]

chat_ProviderFirst(s, a, rq, prov, t) ==
    LET gate == _enforce_trial(a, t)
    IN  IF gate.status # 0 THEN ChatResult(TRUE, gate, prov)
        ELSE IF prov = 0 /\ s.openai_api_key = ""
        THEN ChatResult(TRUE, InternalServerError, prov)
        ELSE IF s.dry_run
        THEN ChatResult(TRUE, [Response(200, "") EXCEPT !.text = DryRunText(rq.message)], 1)
        ELSE ChatResult(FALSE, NoResponse, 1)

chat_ConstructsEachTime(s, a, rq, prov, t) ==
    LET gate == _enforce_trial(a, t)
    IN  IF gate.status # 0 THEN ChatResult(TRUE, gate, prov)
        ELSE IF s.dry_run
        THEN ChatResult(TRUE, [Response(200, "") EXCEPT !.text = DryRunText(rq.message)], prov)
        ELSE IF s.openai_api_key = ""
        THEN ChatResult(TRUE, InternalServerError, prov)
        ELSE ChatResult(FALSE, NoResponse, prov + 1)

chat_DryRunFirst(s, a, rq, prov, t) ==
    LET gate == _enforce_trial(a, t)
    IN  IF s.dry_run
        THEN ChatResult(TRUE, [Response(200, "") EXCEPT !.text = DryRunText(rq.message)], prov)
        ELSE IF gate.status # 0 THEN ChatResult(TRUE, gate, prov)
        ELSE IF prov = 0 /\ s.openai_api_key = ""
        THEN ChatResult(TRUE, InternalServerError, prov)
        ELSE ChatResult(FALSE, NoResponse, 1)

chat(s, a, rq, prov, t) ==
    LET gate == _enforce_trial(a, t)
    IN  IF gate.status # 0 THEN ChatResult(TRUE, gate, prov)
        ELSE IF s.dry_run
        THEN ChatResult(TRUE, [Response(200, "") EXCEPT !.text = DryRunText(rq.message)], prov)
        ELSE IF prov = 0 /\ s.openai_api_key = ""
        THEN ChatResult(TRUE, InternalServerError, prov)
        ELSE ChatResult(FALSE, NoResponse, 1)

\* str.strip() and friends, on the whitespace the texts here hold
Whitespace == {" ", "\n"}

RECURSIVE lstrip(_)
lstrip(text) ==
    IF text # "" /\ Head(text) \in Whitespace THEN lstrip(Tail(text)) ELSE text

RECURSIVE rstrip(_)
rstrip(text) ==
    IF text # "" /\ SubSeq(text, Len(text), Len(text)) \in Whitespace
    THEN rstrip(SubSeq(text, 1, Len(text) - 1)) ELSE text

\* str.strip()
strip(text) == rstrip(lstrip(text))

\* the dedented and stripped base text, by its first line
BasePrompt == "You are the Triple Helix Innovation Chatbot."

ReferenceHeader == "\n\nReference documents (use these when relevant):\n\n"

\* sep.join(texts)
RECURSIVE JoinWith(_, _)
JoinWith(sep, texts) ==
    IF texts = <<>> THEN ""
    ELSE IF Len(texts) = 1 THEN texts[1]
    ELSE texts[1] \o sep \o JoinWith(sep, Tail(texts))

\* f"--- Context Document {i} ---\n{d}\n--- End Context Document {i} ---"
ContextDocument(i, d) ==
    "--- Context Document " \o ToString(i) \o " ---\n" \o d
        \o "\n--- End Context Document " \o ToString(i) \o " ---"

default_system_prompt_NumbersInputPositions(extra_docs) ==
    LET kept == {i \in DOMAIN extra_docs : strip(extra_docs[i]) # ""}
        wrapped == [i \in DOMAIN extra_docs |->
                      IF i \in kept THEN <<ContextDocument(i, strip(extra_docs[i]))>> ELSE <<>>]
        RECURSIVE flat(_)
        flat(ss) == IF ss = <<>> THEN <<>> ELSE ss[1] \o flat(Tail(ss))
    IN  IF kept = {} THEN BasePrompt
        ELSE BasePrompt \o ReferenceHeader \o JoinWith("\n\n", flat(wrapped))

default_system_prompt(extra_docs) ==
    LET kept == SelectSeq(extra_docs, LAMBDA d : d # "" /\ strip(d) # "")
        docs == [i \in DOMAIN kept |-> strip(kept[i])]
    IN  IF docs = <<>> THEN BasePrompt
        ELSE BasePrompt \o ReferenceHeader
                \o JoinWith("\n\n", [i \in DOMAIN docs |-> ContextDocument(i, docs[i])])

AdditionalNotesHeader == "\n\nAdditional system notes:\n"

\* chat: the instructions handed to the adapter
system_prompt(rq) ==
    LET base == IF Falsy(rq.system_prompt)
                THEN default_system_prompt(rq.context_documents)
                ELSE rq.system_prompt
        notes == SelectSeq(rq.messages, LAMBDA m : m.role = "system")
        extra_system == JoinWith("\n\n", [i \in DOMAIN notes |-> notes[i].content])
    IN  IF strip(extra_system) # ""
        THEN base \o AdditionalNotesHeader \o strip(extra_system)
        ELSE base

\* chat: the conversation handed to the adapter
input_messages_KeepsSystemTurns(rq) ==
    rq.messages \o <<[role |-> "user", content |-> rq.message]>>

input_messages(rq) ==
    SelectSeq(rq.messages, LAMBDA m : m.role # "system")
        \o <<[role |-> "user", content |-> rq.message]>>

\* d[k] = v on a dict
Put(d, k, v) == [x \in DOMAIN d \cup {k} |-> IF x = k THEN v ELSE d[x]]

merged_metadata_Overwrites(rq, id, a) ==
    LET m1 == IF ~Falsy(id) THEN Put(rq.metadata, "request_id", id) ELSE rq.metadata
    IN  IF a.user # <<>> THEN Put(m1, "user_id", a.user[1].uid) ELSE m1

\* chat: merged_metadata, from the caller's metadata, request_id_var.get()
\* and the AuthContext
merged_metadata(rq, id, a) ==
    LET m0 == rq.metadata
        m1 == IF ~Falsy(id) /\ "request_id" \notin DOMAIN m0
              THEN Put(m0, "request_id", id) ELSE m0
    IN  IF a.user # <<>> /\ "user_id" \notin DOMAIN m1
        THEN Put(m1, "user_id", a.user[1].uid) ELSE m1

NoCall == [made |-> FALSE, input_messages |-> <<>>, system_prompt |-> "", metadata |-> <<>>]

\* provider.generate(input_messages=input_messages, system_prompt=..., ...,
\*                   metadata=merged_metadata or None)
GenerateCall(rq, id, a) ==
    LET m == merged_metadata(rq, id, a)
    IN  [made |-> TRUE, input_messages |-> input_messages(rq),
         system_prompt |-> system_prompt(rq),
         metadata |-> IF DOMAIN m = {} THEN <<>> ELSE <<m>>]

\* --------------------------------------------------------------------------
\* The provider adapter (src/helix/openai_client.py)
\*
\* An optional text of the external API is <<>> (None, or the attribute is
\* missing) or <<text>>.
\* --------------------------------------------------------------------------
\* "".join(texts)
RECURSIVE join(_)
join(texts) == IF texts = <<>> THEN "" ELSE texts[1] \o join(Tail(texts))

\* `x or ""` and `if x` on an optional text
OrEmpty(x) == IF x = <<>> THEN "" ELSE x[1]

Truthy(x) == OrEmpty(x) # ""

NoResponseText == "(No response.)"

TextOrPlaceholder_Bare(text) == strip(OrEmpty(text))

\* (text or "").strip() or "(No response.)"
TextOrPlaceholder(text) ==
    IF strip(OrEmpty(text)) # "" THEN strip(OrEmpty(text)) ELSE NoResponseText

\* c.text of a fragment the fallback extraction keeps, "" of one it skips
FragmentText(c) ==
    IF c.type \in {"output_text", "text"} /\ Truthy(c.text) THEN c.text[1] ELSE ""

\* the fallback extraction over resp.output: None counts as [], an item is
\* its content list, and any exception on the way gives ""
FallbackText(output) ==
    IF output.kind # "list" THEN ""
    ELSE join([i \in 1..Len(output.items) |->
                 join([j \in 1..Len(output.items[i]) |->
                         FragmentText(output.items[i][j])])])

\* the text of a response of the Responses API
ResponsesText(response) ==
    TextOrPlaceholder(
        <<IF Truthy(response.output_text) THEN response.output_text[1]
          ELSE FallbackText(response.output)>>)

\* the outcome of generate: it raised or it returned text, having made the
\* external calls listed
AdapterResult(raised, text, calls) == [raised |-> raised, text |-> text, calls |-> calls]

ExternalCall(surface, ok) == [surface |-> surface, ok |-> ok]

\* cc.choices[0].message.content of a chat completion; an empty choices
\* list is an IndexError
ChatCompletionsResult(cc, calls) ==
    IF cc.choices = <<>> THEN AdapterResult(TRUE, "", calls)
    ELSE AdapterResult(FALSE, TextOrPlaceholder(cc.choices[1].content), calls)

generate_FallsBack(client, input_text, input_messages_) ==
    IF (input_text = <<>>) = (input_messages_ = <<>>)
    THEN AdapterResult(TRUE, "", <<>>)
    ELSE IF client.has_responses /\ ~client.responses.raises
    THEN AdapterResult(FALSE, ResponsesText(client.responses.resp),
                       <<ExternalCall("responses", TRUE)>>)
    ELSE IF client.has_chat
    THEN LET first == IF client.has_responses
                      THEN <<ExternalCall("responses", FALSE)>> ELSE <<>>
         IN  IF client.chat.raises
             THEN AdapterResult(TRUE, "", first \o <<ExternalCall("chat", FALSE)>>)
             ELSE ChatCompletionsResult(client.chat.cc,
                                        first \o <<ExternalCall("chat", TRUE)>>)
    ELSE AdapterResult(TRUE, "",
                       IF client.has_responses
                       THEN <<ExternalCall("responses", FALSE)>> ELSE <<>>)

\* OpenAIProvider.generate on an SDK client: which surfaces the client has,
\* and what a call of each surface does
generate(client, input_text, input_messages_) ==
    IF (input_text = <<>>) = (input_messages_ = <<>>)
    THEN AdapterResult(TRUE, "", <<>>)
    ELSE IF client.has_responses
    THEN IF client.responses.raises
         THEN AdapterResult(TRUE, "", <<ExternalCall("responses", FALSE)>>)
         ELSE AdapterResult(FALSE, ResponsesText(client.responses.resp),
                            <<ExternalCall("responses", TRUE)>>)
    ELSE IF client.has_chat
    THEN IF client.chat.raises
         THEN AdapterResult(TRUE, "", <<ExternalCall("chat", FALSE)>>)
         ELSE ChatCompletionsResult(client.chat.cc, <<ExternalCall("chat", TRUE)>>)
    ELSE AdapterResult(TRUE, "", <<>>)

\* a response object of the Responses API, and a chat completion
ResponsesObject(output_text, output) == [output_text |-> output_text, output |-> output]

Output(kind, items) == [kind |-> kind, items |-> items]

ChatCompletion(choices) == [choices |-> choices]

\* an SDK client: the surfaces it has (hasattr) and what a call of each does
Client(has_responses, has_chat, responses_raises, response, chat_raises, cc) ==
    [has_responses |-> has_responses, has_chat |-> has_chat,
     responses |-> [raises |-> responses_raises, resp |-> response],
     chat |-> [raises |-> chat_raises, cc |-> cc]]

ModelText == "(model text)"

EmptyResponse == ResponsesObject(<<>>, Output("none", <<>>))

\* a current SDK whose Responses call answers with a text, or fails
ModelClient ==
    Client(TRUE, TRUE, FALSE, ResponsesObject(<<ModelText>>, Output("none", <<>>)),
           FALSE, ChatCompletion(<<[content |-> <<ModelText>>]>>))

FailingClient ==
    Client(TRUE, TRUE, TRUE, EmptyResponse,
           FALSE, ChatCompletion(<<[content |-> <<ModelText>>]>>))

\* --------------------------------------------------------------------------
\* The session-based service (src/api.py): its data
\* --------------------------------------------------------------------------
\* the prompt, by its first line
SYSTEM_PROMPT == "You are a Triple-Helix Innovation Chatbot."

ChatMessage(role, content) == [role |-> role, content |-> content]

ChatRequest(messages, session_id) == [messages |-> messages, session_id |-> session_id]

NoChatRequest == ChatRequest(<<>>, NULL)

\* a ChatResponse, or the error sent in its place (provider "")
ChatResponse(status, session_id, reply, messages, prov) ==
    [status |-> status, session_id |-> session_id, reply |-> reply,
     messages |-> messages, provider |-> prov]

NoChatResponse == ChatResponse(0, NULL, "", <<>>, "")

\* HTTPException(400), or the 500 of an exception chat does not handle
ChatError(status) == ChatResponse(status, NULL, "", <<>>, "")

\* session_id, merged and provider_messages; sent: the list went out to the
\* provider
NoFrame == [session_id |-> NULL, merged |-> <<>>, provider_messages |-> <<>>, sent |-> FALSE]

\* SESSION_MAX_MESSAGES (50 when unset) and OPENAI_API_KEY ("" when unset)
Environs == [SESSION_MAX_MESSAGES : {0, 2, 50}, OPENAI_API_KEY : {"", "sk-test"}]

\* the session service with no request received yet
SessionsAtRest ==
    /\ environ = [SESSION_MAX_MESSAGES |-> 50, OPENAI_API_KEY |-> ""]
    /\ _SESSIONS = EmptyDict
    /\ served = 0
    /\ chat_pc = [p \in Procs |-> "idle"]
    /\ body = [p \in Procs |-> NoChatRequest]
    /\ frame = [p \in Procs |-> NoFrame]
    /\ chat_response = [p \in Procs |-> NoChatResponse]

\* --------------------------------------------------------------------------
\* The service
\* --------------------------------------------------------------------------
\* _startup: the provider is built when a key is configured and dry-run is
\* off; a failure there is logged and leaves app.state without a provider.
StartupProviders(s) ==
    IF s.openai_api_key # "" /\ ~s.dry_run THEN {0, 1} ELSE {0}

\* The users table is durable: a service running without user accounts may
\* find the table a firebase deployment left behind.
DurableTables(s) ==
    IF effective_auth_mode(s) = "firebase" THEN {{}}
    ELSE {{}, {NewRow("u1", "a@x", "Ann", 0, 1)}}

NoArg == [fn |-> "none"]

\* no request has arrived: no correlation id, no response, no adapter call
InitWire ==
    /\ rid = [p \in Procs |-> NULL]
    /\ hdr = [p \in Procs |-> <<>>]
    /\ call = [p \in Procs |-> NoCall]
    /\ extCalls = [p \in Procs |-> <<>>]

Init ==
    /\ settings \in SettingsSet
    /\ now = 0
    /\ users \in DurableTables(settings)
    /\ pc = [p \in Procs |-> "idle"]
    /\ req = [p \in Procs |-> NoRequest]
    /\ started = [p \in Procs |-> 0]
    /\ loc = [p \in Procs |-> NoLocals]
    /\ auth = [p \in Procs |-> NoAuth]
    /\ resp = [p \in Procs |-> NoResponse]
    /\ provider \in StartupProviders(settings)
    /\ apiCalls = [p \in Procs |-> 0]
    /\ InitWire
    /\ arg = NoArg
    /\ out = <<>>
    /\ SessionsAtRest

InFlight(p) == pc[p] \notin {"idle", "done"}

\* The clock advances.  A request is served within less than one unit of the
\* clock, so it sees at most one advance between its start and its end.
Tick ==
    /\ now < MaxTime
    /\ \A p \in Procs : InFlight(p) => started[p] = now
    /\ now' = now + 1
    /\ UNCHANGED <<settings, users, pc, req, started, loc, auth, resp, provider, apiCalls>>
    /\ UNCHANGED <<wire, pure, sessions>>

\* str(uuid.uuid4()): an identifier no other request in flight has, and no
\* caller sends
uuid4(p) == "uuid-" \o p

\* an exception left the application: call_next raises it
Unhandled(response) == response = InternalServerError

\* request_id_and_logging once call_next is over: a response the application
\* returned is given the X-Request-ID header; an exception passes through
\* the middleware, and the server's own 500 goes out as it is.  Either way
\* request_id_var is reset.
AfterCallNext(p) ==
    /\ hdr' = [hdr EXCEPT ![p] =
          IF pc'[p] = "done" /\ ~Unhandled(resp'[p]) THEN <<rid[p]>> ELSE <<>>]
    /\ rid' = [rid EXCEPT ![p] = IF pc'[p] = "done" THEN NULL ELSE rid[p]]

\* request_id_and_logging: a request arrives at a free handler
Receive(p, r) ==
    /\ ~InFlight(p)
    /\ rid' = [rid EXCEPT ![p] =
          IF Falsy(r.x_request_id) THEN uuid4(p) ELSE r.x_request_id]
    /\ hdr' = [hdr EXCEPT ![p] = <<>>]
    /\ call' = [call EXCEPT ![p] = NoCall]
    /\ extCalls' = [extCalls EXCEPT ![p] = <<>>]
    /\ req' = [req EXCEPT ![p] = r]
    /\ started' = [started EXCEPT ![p] = now]
    /\ loc' = [loc EXCEPT ![p] = NoLocals]
    /\ auth' = [auth EXCEPT ![p] = NoAuth]
    /\ resp' = [resp EXCEPT ![p] = NoResponse]
    /\ apiCalls' = [apiCalls EXCEPT ![p] = 0]
    /\ pc' = [pc EXCEPT ![p] = "auth"]
    /\ UNCHANGED <<settings, now, users, provider>>
    /\ UNCHANGED <<pure, sessions>>

\* A handler that has answered keeps the request and the response it sent;
\* its locals and its AuthContext end with the call.
Reject(p, status, detail) ==
    /\ resp' = [resp EXCEPT ![p] = Response(status, detail)]
    /\ pc' = [pc EXCEPT ![p] = "done"]

\* require_auth, up to its return or to the entry of get_or_create_user
RequireAuth(p) ==
    /\ pc[p] = "auth"
    /\ LET mode == effective_auth_mode(settings)
           key == require_api_key(settings, req[p].authorization, req[p].x_api_key)
           id == firebase_identity(req[p].authorization)
       IN  CASE mode = "public" ->
                  /\ auth' = [auth EXCEPT ![p] = AuthContext("public", <<>>)]
                  /\ pc' = [pc EXCEPT ![p] = "handler"]
                  /\ UNCHANGED <<resp, loc>>
             [] mode = "api_key" /\ key.status = 0 ->
                  /\ auth' = [auth EXCEPT ![p] = AuthContext("api_key", <<>>)]
                  /\ pc' = [pc EXCEPT ![p] = "handler"]
                  /\ UNCHANGED <<resp, loc>>
             [] mode = "api_key" /\ key.status # 0 ->
                  /\ Reject(p, key.status, key.detail)
                  /\ UNCHANGED <<auth, loc>>
             [] mode = "firebase" /\ id.status # 0 ->
                  /\ Reject(p, id.status, id.detail)
                  /\ UNCHANGED <<auth, loc>>
             [] mode = "firebase" /\ id.status = 0 ->
                  \* get_or_create_user: now = _utc_now(); trial_days = max(0, ...)
                  /\ loc' = [loc EXCEPT ![p] =
                        [NoLocals EXCEPT !.uid = id.uid, !.email = id.email,
                                         !.name = id.name, !.now = now,
                                         !.trial_days = Max(0, settings.trial_days)]]
                  /\ pc' = [pc EXCEPT ![p] = "select"]
                  /\ UNCHANGED <<auth, resp>>
             [] OTHER ->
                  /\ Reject(p, 500, "Invalid HELIX_AUTH_MODE")
                  /\ UNCHANGED <<auth, loc>>
    /\ AfterCallNext(p)
    /\ UNCHANGED <<settings, now, users, req, started, provider, apiCalls, call, extCalls>>
    /\ UNCHANGED <<pure, sessions>>

\* get_or_create_user: row = SELECT * FROM users WHERE uid = ?
\* (sqlite3 runs a SELECT outside any transaction: no lock is held after it)
Select(p) ==
    /\ pc[p] = "select"
    /\ loc' = [loc EXCEPT ![p].row = SelectByUid(users, loc[p].uid) # {}]
    /\ pc' = [pc EXCEPT ![p] = "write"]
    /\ UNCHANGED <<settings, now, users, req, started, auth, resp, provider, apiCalls>>
    /\ UNCHANGED <<wire, pure, sessions>>

\* get_or_create_user: the INSERT or UPDATE, the second SELECT and the commit.
\* The INSERT or UPDATE takes the database's write lock and the commit gives
\* it back, so the three statements are one step for every other connection.
Write(p) ==
    /\ pc[p] = "write"
    /\ LET l == loc[p]
           ins == Insert(users, NewRow(l.uid, l.email, l.name, l.now, l.trial_days))
           tbl == IF l.row THEN Update(users, l.uid, l.email, l.name, l.now)
                  ELSE ins.table
           row == SelectByUid(tbl, l.uid)
       IN  IF (~l.row /\ ~ins.ok) \/ row = {}
           THEN \* sqlite3.IntegrityError (or the assert) leaves require_auth
                /\ resp' = [resp EXCEPT ![p] = InternalServerError]
                /\ pc' = [pc EXCEPT ![p] = "done"]
                /\ loc' = [loc EXCEPT ![p] = NoLocals]
                /\ UNCHANGED <<users, auth>>
           ELSE /\ users' = tbl
                /\ \E r \in row :
                      auth' = [auth EXCEPT ![p] = AuthContext("firebase", <<_row_to_user(r)>>)]
                /\ loc' = [loc EXCEPT ![p].inserted = ~l.row]
                /\ pc' = [pc EXCEPT ![p] = "handler"]
                /\ UNCHANGED resp
    /\ AfterCallNext(p)
    /\ UNCHANGED <<settings, now, req, started, provider, apiCalls, call, extCalls>>
    /\ UNCHANGED <<pure, sessions>>

\* GET /v1/me
Me(p) ==
    /\ pc[p] = "handler"
    /\ req[p].endpoint = "me"
    /\ resp' = [resp EXCEPT ![p] = me(auth[p], now)]
    /\ pc' = [pc EXCEPT ![p] = "done"]
    /\ loc' = [loc EXCEPT ![p] = NoLocals]
    /\ auth' = [auth EXCEPT ![p] = NoAuth]
    /\ AfterCallNext(p)
    /\ UNCHANGED <<settings, now, users, req, started, provider, apiCalls, call, extCalls>>
    /\ UNCHANGED <<pure, sessions>>

\* POST /v1/chat, up to its response or to the await of provider.generate
Chat(p) ==
    /\ pc[p] = "handler"
    /\ req[p].endpoint = "chat"
    /\ LET c == chat(settings, auth[p], req[p], provider, now)
       IN  /\ provider' = c.provider
           /\ resp' = [resp EXCEPT ![p] = c.resp]
           /\ pc' = [pc EXCEPT ![p] = IF c.done THEN "done" ELSE "generate"]
           /\ apiCalls' = [apiCalls EXCEPT ![p] = IF c.done THEN 0 ELSE 1]
           /\ loc' = [loc EXCEPT ![p] = IF c.done THEN NoLocals ELSE loc[p]]
           /\ auth' = [auth EXCEPT ![p] = IF c.done THEN NoAuth ELSE auth[p]]
           /\ call' = [call EXCEPT ![p] =
                 IF c.done THEN NoCall ELSE GenerateCall(req[p], rid[p], auth[p])]
    /\ AfterCallNext(p)
    /\ UNCHANGED <<settings, now, users, req, started, extCalls>>
    /\ UNCHANGED <<pure, sessions>>

\* the await of provider.generate on the SDK client `client`, and the
\* ChatResponse built from its result; what generate raises leaves chat
Generate(p, client) ==
    /\ pc[p] = "generate"
    /\ LET g == generate(client, <<>>, <<call[p].input_messages>>)
       IN  /\ resp' = [resp EXCEPT ![p] =
                 IF g.raised THEN InternalServerError
                 ELSE [Response(200, "") EXCEPT !.text = g.text]]
           /\ extCalls' = [extCalls EXCEPT ![p] = g.calls]
    /\ pc' = [pc EXCEPT ![p] = "done"]
    /\ loc' = [loc EXCEPT ![p] = NoLocals]
    /\ auth' = [auth EXCEPT ![p] = NoAuth]
    /\ call' = [call EXCEPT ![p] = NoCall]
    /\ AfterCallNext(p)
    /\ UNCHANGED <<settings, now, users, req, started, provider, apiCalls>>
    /\ UNCHANGED <<pure, sessions>>

\* provider.generate returns a text, or raises
ProviderReturn(p, ok) == Generate(p, IF ok THEN ModelClient ELSE FailingClient)

Next ==
    \/ Tick
    \/ \E p \in Procs, r \in ConcurrentRequests : Receive(p, r)
    \/ \E p \in Procs : RequireAuth(p)
    \/ \E p \in Procs : Select(p)
    \/ \E p \in Procs : Write(p)
    \/ \E p \in Procs : Chat(p)
    \/ \E p \in Procs, ok \in BOOLEAN : ProviderReturn(p, ok)

Spec == Init /\ [][Next]_vars

\* One handler serving one request after the other, over every request
NextGate ==
    \/ Tick
    \/ \E r \in Requests : Receive(Single, r)
    \/ RequireAuth(Single)
    \/ Select(Single)
    \/ Write(Single)
    \/ Me(Single)
    \/ Chat(Single)
    \/ \E ok \in BOOLEAN : ProviderReturn(Single, ok)

SpecGate == Init /\ [][NextGate]_vars

\* Two handlers of a firebase deployment in dry-run, serving the callers of
\* two different uids (tokA and tokA0 are u1, tokB is u2)
UserStoreRequests ==
    { Request("chat", <<"Bearer", c>>, NULL, "hi", NULL, EmptyDict, <<>>) :
        c \in {"tokA", "tokA0", "tokB"} }

InitUsers ==
    /\ Init
    /\ settings.auth_mode = "firebase" /\ settings.dry_run

NextUsers ==
    \/ Tick
    \/ \E p \in Procs, r \in UserStoreRequests : Receive(p, r)
    \/ \E p \in Procs : RequireAuth(p)
    \/ \E p \in Procs : Select(p)
    \/ \E p \in Procs : Write(p)
    \/ \E p \in Procs : Chat(p)

SpecUsers == InitUsers /\ [][NextUsers]_vars

\* The live chat pipeline: one handler, requests that vary the correlation
\* id header, the metadata and the prior turns, and SDK clients of every
\* shape behind the adapter.
XRequestIds == {NULL, "rid-7"}

Metadatas ==
    { EmptyDict, [topic |-> "mine"], [request_id |-> "mine"], [user_id |-> "mine"],
      [request_id |-> "mine", user_id |-> "mine", topic |-> "mine"] }

Turns == [role : {"user", "assistant", "system"}, content : {"t"}]

TurnLists == UNION {[1..n -> Turns] : n \in 0..MaxTurns}

ChatAuthorizations == {<<>>, <<"Bearer", "s3cret">>, <<"Bearer", "tokA">>}

SystemPrompts == {NULL, "", "Be brief."}

ContextDocuments == {<<>>, <<"alpha">>, <<" \n", " beta ">>}

SystemNotes == {<<>>, <<[role |-> "system", content |-> "t"]>>}

\* the metadata, the prior turns and the prompt fields are read by separate
\* statements of chat: a request varies one of the three
ChatRequests ==
    { Request("chat", a, NULL, "hi", x, md, <<>>) :
        a \in ChatAuthorizations, x \in XRequestIds, md \in Metadatas }
    \cup { Request("chat", a, NULL, "hi", x, EmptyDict, ms) :
             a \in ChatAuthorizations, x \in XRequestIds, ms \in TurnLists }
    \cup { [Request("chat", a, NULL, "hi", NULL, EmptyDict, ms)
              EXCEPT !.system_prompt = sp, !.context_documents = docs] :
             a \in ChatAuthorizations, sp \in SystemPrompts,
             docs \in ContextDocuments, ms \in SystemNotes }

BlankText == " \n"

LegacyCompletion(content) == ChatCompletion(<<[content |-> content]>>)

ServiceClients ==
    { ModelClient, FailingClient,
      \* the Responses call answers without any text
      Client(TRUE, TRUE, FALSE, EmptyResponse, FALSE, LegacyCompletion(<<ModelText>>)),
      \* an older SDK: chat completions only
      Client(FALSE, TRUE, FALSE, EmptyResponse, FALSE, LegacyCompletion(<<ModelText>>)),
      Client(FALSE, TRUE, FALSE, EmptyResponse, FALSE, LegacyCompletion(<<BlankText>>)),
      Client(FALSE, TRUE, FALSE, EmptyResponse, TRUE, LegacyCompletion(<<ModelText>>)),
      \* an SDK with neither surface
      Client(FALSE, FALSE, FALSE, EmptyResponse, FALSE, LegacyCompletion(<<ModelText>>)) }

InitChat ==
    /\ Init
    /\ ~settings.dry_run
    /\ settings.auth_mode \in {"public", "api_key", "firebase"}
    /\ settings.auth_mode = "api_key" => settings.api_key = Secret

NextChat ==
    \/ \E r \in ChatRequests : Receive(Single, r)
    \/ RequireAuth(Single)
    \/ Select(Single)
    \/ Write(Single)
    \/ Chat(Single)
    \/ \E client \in ServiceClients : Generate(Single, client)

SpecChat == InitChat /\ [][NextChat]_vars

\* --------------------------------------------------------------------------
\* UserRecord.trial_active as a function of the record and the clock
\* --------------------------------------------------------------------------
Plans == {"trial", "free", "paid", "admin"}

OptionalTimes == {<<>>} \cup {<<t>> : t \in 0..MaxTime}

TrialArgs ==
    [fn : {"trial_active"}, plan : Plans, trial_started_at : {<<>>, <<0>>},
     trial_ends_at : OptionalTimes, t : 0..(MaxTime + 1)]

ArgRecord(a) ==
    [uid |-> "u1", email |-> NULL, name |-> NULL, created_at |-> 0,
     last_seen_at |-> 0, plan |-> a.plan,
     trial_started_at |-> a.trial_started_at, trial_ends_at |-> a.trial_ends_at]

InitTrial ==
    /\ settings \in {s \in SettingsSet : s.auth_mode = "firebase" /\ s.trial_days = 1 /\ s.dry_run}
    /\ now = 0
    /\ users = {}
    /\ pc = [p \in Procs |-> "idle"]
    /\ req = [p \in Procs |-> NoRequest]
    /\ started = [p \in Procs |-> 0]
    /\ loc = [p \in Procs |-> NoLocals]
    /\ auth = [p \in Procs |-> NoAuth]
    /\ resp = [p \in Procs |-> NoResponse]
    /\ provider = 0
    /\ apiCalls = [p \in Procs |-> 0]
    /\ InitWire
    /\ SessionsAtRest
    /\ arg \in TrialArgs
    /\ out = <<>>

EvalTrialActive ==
    /\ arg.fn = "trial_active"
    /\ out = <<>>
    /\ out' = <<trial_active(ArgRecord(arg), arg.t)>>
    /\ UNCHANGED <<service, arg, sessions>>

NextTrial == EvalTrialActive

SpecTrial == InitTrial /\ [][NextTrial]_vars

\* the service at rest, while a pure function is evaluated
ServiceAtRest ==
    /\ settings \in {s \in SettingsSet : s.auth_mode = "firebase" /\ s.trial_days = 1 /\ s.dry_run}
    /\ now = 0
    /\ users = {}
    /\ pc = [p \in Procs |-> "idle"]
    /\ req = [p \in Procs |-> NoRequest]
    /\ started = [p \in Procs |-> 0]
    /\ loc = [p \in Procs |-> NoLocals]
    /\ auth = [p \in Procs |-> NoAuth]
    /\ resp = [p \in Procs |-> NoResponse]
    /\ provider = 0
    /\ apiCalls = [p \in Procs |-> 0]
    /\ InitWire

\* --------------------------------------------------------------------------
\* The session-based service (src/api.py): POST /chat
\* --------------------------------------------------------------------------
MaxRequests == 2

Min(a, b) == IF a <= b THEN a ELSE b

\* xs[-n:]: a negative start counts from the end, and -0 is the start 0
LastSlice(xs, n) ==
    LET start == IF n > 0 THEN Max(Len(xs) - n, 0) ELSE Min(0 - n, Len(xs))
    IN  SubSeq(xs, start + 1, Len(xs))

\* chat: merged, the stored session followed by the messages of the request,
\* behind SYSTEM_PROMPT unless a system message leads already
Merge(prior, messages) ==
    LET both == prior \o messages
    IN  IF both = <<>> \/ both[1].role # "system"
        THEN <<ChatMessage("system", SYSTEM_PROMPT)>> \o both
        ELSE both

\* next((m.content for m in reversed(merged) if m.role == "user"), "")
last_user(ms) ==
    LET mine == SelectSeq(ms, LAMBDA m : m.role = "user")
    IN  IF mine = <<>> THEN "" ELSE mine[Len(mine)].content

\* the deterministic draft, by its heading and the line that quotes the user
_local_reply(user_text) ==
    "### Triple-Helix draft response\n\n**1) Problem framing**\n- "
        \o strip(user_text) \o "\n\n"

ChatOutcome(response, store) == [response |-> response, store |-> store]

\* chat, from assistant_msg on: ChatMessage refuses an empty content, and
\* that ValidationError is answered 500
Persist(f, reply, prov, store, e) ==
    IF reply = "" THEN ChatOutcome(ChatError(500), store)
    ELSE LET updated == Append(f.merged, ChatMessage("assistant", reply))
             max_msgs == e.SESSION_MAX_MESSAGES
         IN  ChatOutcome(ChatResponse(200, f.session_id, reply, updated, prov),
                         Put(store, f.session_id, LastSlice(updated, max_msgs)))

\* chat, the except branch
Fallback(f, store, e) ==
    IF last_user(f.merged) = "" THEN ChatOutcome(ChatError(400), store)
    ELSE Persist(f, _local_reply(last_user(f.merged)), "local", store, e)

\* what client.chat.completions.create does: it raises, or it answers with
\* message.content None, "" or a text
Completion(raised, content) == [raised |-> raised, content |-> content]

Completions ==
    {Completion(TRUE, <<>>), Completion(FALSE, <<>>), Completion(FALSE, <<"">>),
     Completion(FALSE, <<ModelText>>)}

SessionIds == {NULL, "s1"}

SessionMessageLists ==
    { <<ChatMessage("user", "q1")>>,
      <<ChatMessage("user", "q2")>>,
      <<ChatMessage("system", "Be terse."), ChatMessage("user", "q1")>>,
      <<ChatMessage("assistant", "a0")>> }

SessionRequests ==
    {ChatRequest(ms, id) : ms \in SessionMessageLists, id \in SessionIds}

InitSession ==
    /\ ServiceAtRest
    /\ arg = NoArg
    /\ out = <<>>
    /\ environ \in Environs
    /\ _SESSIONS = EmptyDict
    /\ served = 0
    /\ chat_pc = [p \in Procs |-> "idle"]
    /\ body = [p \in Procs |-> NoChatRequest]
    /\ frame = [p \in Procs |-> NoFrame]
    /\ chat_response = [p \in Procs |-> NoChatResponse]

\* chat, up to its suspension in _openai_reply.  Without OPENAI_API_KEY
\* _openai_reply raises before it awaits anything, and chat runs to its end
\* in the same step of the event loop.
PostChat(p, r) ==
    /\ served < MaxRequests
    /\ chat_pc[p] \in {"idle", "done"}
    /\ served' = served + 1
    /\ body' = [body EXCEPT ![p] = r]
    /\ LET session_id == IF Falsy(r.session_id) THEN uuid4(ToString(served))
                          ELSE r.session_id
           prior == IF session_id \in DOMAIN _SESSIONS THEN _SESSIONS[session_id] ELSE <<>>
           merged == Merge(prior, r.messages)
           f == [session_id |-> session_id, merged |-> merged,
                 provider_messages |-> merged, sent |-> environ.OPENAI_API_KEY # ""]
       IN  IF environ.OPENAI_API_KEY = ""
           THEN LET o == Fallback(f, _SESSIONS, environ)
                IN  /\ chat_pc' = [chat_pc EXCEPT ![p] = "done"]
                    /\ chat_response' = [chat_response EXCEPT ![p] = o.response]
                    /\ _SESSIONS' = o.store
                    /\ UNCHANGED frame
           ELSE /\ chat_pc' = [chat_pc EXCEPT ![p] = "awaiting"]
                /\ frame' = [frame EXCEPT ![p] = f]
                /\ chat_response' = [chat_response EXCEPT ![p] = NoChatResponse]
                /\ UNCHANGED _SESSIONS
    /\ UNCHANGED <<service, pure, environ>>

\* chat, resumed when the provider call ends
OpenAIReturn(p, completion) ==
    /\ chat_pc[p] = "awaiting"
    /\ LET o == IF completion.raised THEN Fallback(frame[p], _SESSIONS, environ)
                ELSE Persist(frame[p], OrEmpty(completion.content), "openai",
                             _SESSIONS, environ)
       IN  /\ chat_response' = [chat_response EXCEPT ![p] = o.response]
           /\ _SESSIONS' = o.store
    /\ chat_pc' = [chat_pc EXCEPT ![p] = "done"]
    /\ frame' = [frame EXCEPT ![p] = NoFrame]
    /\ UNCHANGED <<service, pure, environ, served, body>>

NextSession ==
    \/ \E p \in Procs, r \in SessionRequests : PostChat(p, r)
    \/ \E p \in Procs, completion \in Completions : OpenAIReturn(p, completion)

SpecSession == InitSession /\ [][NextSession]_vars

\* --------------------------------------------------------------------------
\* OpenAIProvider.generate as a function of the SDK client and its answer
\* --------------------------------------------------------------------------
ApiTexts == {"", " ", "ok", " ok\n"}

OptionalTexts == {<<>>} \cup {<<t>> : t \in ApiTexts}

Fragments ==
    [type : {"output_text", "text", "refusal"}, text : {<<>>, <<"">>, <<" ">>, <<"ok">>}]

\* the content list of an output item: no fragment, or one
Contents == {<<>>} \cup {<<c>> : c \in Fragments}

\* resp.output: None, something the extraction trips over, or a list of items
Outputs ==
    {Output("none", <<>>), Output("raises", <<>>)}
    \cup {Output("list", items) : items \in UNION {[1..n -> Contents] : n \in 0..MaxItems}}

ResponsesObjects == {ResponsesObject(t, o) : t \in OptionalTexts, o \in Outputs}

ChatCompletions == {ChatCompletion(<<>>)} \cup {LegacyCompletion(c) : c \in OptionalTexts}

AdapterClients ==
    {Client(TRUE, TRUE, FALSE, r, FALSE, LegacyCompletion(<<ModelText>>)) :
        r \in ResponsesObjects}
    \cup {Client(FALSE, TRUE, FALSE, EmptyResponse, FALSE, cc) : cc \in ChatCompletions}
    \cup ServiceClients

AdapterArgs ==
    [fn : {"generate"}, client : AdapterClients,
     input_text : {<<>>, <<"hi">>},
     input_messages : {<<>>, <<<<[role |-> "user", content |-> "hi"]>>>>}]

InitAdapter ==
    /\ ServiceAtRest
    /\ SessionsAtRest
    /\ arg \in AdapterArgs
    /\ out = <<>>

EvalGenerate ==
    /\ arg.fn = "generate"
    /\ out = <<>>
    /\ out' = <<generate(arg.client, arg.input_text, arg.input_messages)>>
    /\ UNCHANGED <<service, arg, sessions>>

NextAdapter == EvalGenerate

SpecAdapter == InitAdapter /\ [][NextAdapter]_vars

\* --------------------------------------------------------------------------
\* default_system_prompt (src/helix/prompts.py)
\* --------------------------------------------------------------------------
DocTexts == {"", " \n", "alpha", " beta "}

PromptArgs ==
    [fn : {"default_system_prompt"},
     extra_docs : UNION {[1..n -> DocTexts] : n \in 0..MaxDocs}]

InitPrompt ==
    /\ ServiceAtRest
    /\ SessionsAtRest
    /\ arg \in PromptArgs
    /\ out = <<>>

EvalDefaultSystemPrompt ==
    /\ arg.fn = "default_system_prompt"
    /\ out = <<>>
    /\ out' = <<default_system_prompt(arg.extra_docs)>>
    /\ UNCHANGED <<service, arg, sessions>>

NextPrompt == EvalDefaultSystemPrompt

SpecPrompt == InitPrompt /\ [][NextPrompt]_vars

\* --------------------------------------------------------------------------
\* The offline responder (src/triple_helix_engine.py)
\* --------------------------------------------------------------------------
UpperCase == "ABCDEFGHIJKLMNOPQRSTUVWXYZ"

LowerCase == "abcdefghijklmnopqrstuvwxyz"

\* str.lower(), on the letters A-Z
RECURSIVE lower(_)
lower(text) ==
    IF text = "" THEN ""
    ELSE LET c == Head(text)
             found == {i \in 1..Len(UpperCase) : SubSeq(UpperCase, i, i) = c}
         IN  (IF found = {} THEN c
              ELSE LET i == CHOOSE i \in found : TRUE IN SubSeq(LowerCase, i, i))
                 \o lower(Tail(text))

\* k in m
In(k, m) == \E i \in 1..(Len(m) - Len(k) + 1) : SubSeq(m, i, i + Len(k) - 1) = k

\* any(k in m for k in keywords)
AnyIn(keywords, m) == \E i \in DOMAIN keywords : In(keywords[i], m)

FundingKeywords == <<"grant", "funding", "proposal", "call for", "rfp">>

CommercializationKeywords == <<"startup", "product", "go-to-market", "commercial", "pricing">>

PolicyKeywords == <<"policy", "regulation", "law", "compliance", "public sector", "government">>

ResearchKeywords == <<"research", "paper", "university", "lab", "prototype", "method">>

PartnershipKeywords == <<"partnership", "mou", "consortium", "collaboration", "stakeholder">>

_triage_intent_CommercialFirst(message) ==
    LET m == strip(lower(message))
    IN  IF AnyIn(CommercializationKeywords, m) THEN "commercialization"
        ELSE IF AnyIn(FundingKeywords, m) THEN "funding"
        ELSE IF AnyIn(PolicyKeywords, m) THEN "policy"
        ELSE IF AnyIn(ResearchKeywords, m) THEN "research"
        ELSE IF AnyIn(PartnershipKeywords, m) THEN "partnership"
        ELSE "general"

_triage_intent(message) ==
    LET m == strip(lower(message))
    IN  IF AnyIn(FundingKeywords, m) THEN "funding"
        ELSE IF AnyIn(CommercializationKeywords, m) THEN "commercialization"
        ELSE IF AnyIn(PolicyKeywords, m) THEN "policy"
        ELSE IF AnyIn(ResearchKeywords, m) THEN "research"
        ELSE IF AnyIn(PartnershipKeywords, m) THEN "partnership"
        ELSE "general"

common ==
    <<"What country/region are you operating in?",
      "What is the target sector (e.g., health, energy, agri, fintech)?",
      "What stage are you at (idea, prototype, pilot, scale)?",
      "Who are the key stakeholders you already have (academia/industry/government)?">>

\* by_intent.get(intent, [])
by_intent(intent) ==
    CASE intent = "funding" ->
           <<"What is your rough budget range and timeline?",
             "Is the lead applicant a university, company, or public agency?">>
      [] intent = "commercialization" ->
           <<"Who is the buyer/user and what pain are you solving?",
             "Do you have IP to protect (patent, know-how, data)?">>
      [] intent = "policy" ->
           <<"What policy objective are you aiming for (growth, jobs, resilience, inclusion)?",
             "Are there specific regulations or standards you must meet?">>
      [] intent = "research" ->
           <<"What is the research question and what evidence would validate it?",
             "What datasets, equipment, or facilities do you need?">>
      [] intent = "partnership" ->
           <<"What value does each helix bring (knowledge, market access, legitimacy)?",
             "How will decisions be made (steering group, PI-led, joint venture)?">>
      [] OTHER -> <<>>

\* xs[:n]
Take(xs, n) == SubSeq(xs, 1, IF Len(xs) < n THEN Len(xs) ELSE n)

_clarifying_questions_CommonFirst(intent) == Take(common \o by_intent(intent), 5)

_clarifying_questions(intent) == Take(by_intent(intent) \o common, 5)

\* the fixed part of the answer, up to the questions
AnswerTemplate ==
    "Here's a Triple-Helix framing (Academia x Industry x Government):\n\n"
    \o "1) Academia (knowledge): ...\n2) Industry (value): ...\n"
    \o "3) Government (enabling): ...\n\n"
    \o "A practical next step is to define a joint pilot with clear roles, "
    \o "success metrics, and a governance model.\n\nTo tailor this, answer:\n"

TripleHelixReply(answer, meta) == [answer |-> answer, meta |-> meta]

\* generate_reply at the instant t of the clock; history is <<>> (None) or
\* <<turns>>
generate_reply(message, history, t) ==
    LET intent == _triage_intent(message)
        questions == _clarifying_questions(intent)
    IN  TripleHelixReply(
            AnswerTemplate
                \o JoinWith("\n", [i \in DOMAIN questions |-> "- " \o questions[i]]),
            [intent |-> intent,
             generated_at_utc |-> _iso(<<t>>)[1],
             history_turns |-> IF history = <<>> THEN 0 ELSE Len(history[1])])

\* messages of one or two words, with keywords of every category, words
\* that hold a keyword inside them, capitals and padding
Words ==
    {"grant", "Startup", "PRICING", "policy", "flaw", "research", "lab",
     "collaboration", "MoU", "call for", "hello", "pilot"}

Range(xs) == {xs[i] : i \in DOMAIN xs}

\* every keyword of the five categories
AllKeywords ==
    Range(FundingKeywords) \cup Range(CommercializationKeywords)
        \cup Range(PolicyKeywords) \cup Range(ResearchKeywords)
        \cup Range(PartnershipKeywords)

EngineMessages ==
    Words \cup AllKeywords
          \cup {" " \o w \o "\n" : w \in {"RFP", "hello"}}
          \cup {w1 \o " " \o w2 : w1 \in Words, w2 \in Words}

Histories ==
    {<<>>, <<<<>>>>,
     <<<<[role |-> "user", content |-> "hi"], [role |-> "assistant", content |-> "ok"]>>>>}

Intents == {"funding", "commercialization", "policy", "research", "partnership", "general"}

EngineArgs ==
    [fn : {"_triage_intent"}, message : EngineMessages]
    \cup [fn : {"_clarifying_questions"}, intent : Intents \cup {"other"}]
    \cup [fn : {"generate_reply"}, message : {"hello", "grant"}, history : Histories]

InitEngine ==
    /\ ServiceAtRest
    /\ SessionsAtRest
    /\ arg \in EngineArgs
    /\ out = <<>>

EvalTriageIntent ==
    /\ arg.fn = "_triage_intent"
    /\ out = <<>>
    /\ out' = <<_triage_intent(arg.message)>>
    /\ UNCHANGED <<service, arg, sessions>>

EvalClarifyingQuestions ==
    /\ arg.fn = "_clarifying_questions"
    /\ out = <<>>
    /\ out' = <<_clarifying_questions(arg.intent)>>
    /\ UNCHANGED <<service, arg, sessions>>

\* generate_reply is called, and called again with the same arguments;
\* out holds the replies in the order of the calls
EvalGenerateReply ==
    /\ arg.fn = "generate_reply"
    /\ Len(out) < 2
    /\ out' = Append(out, generate_reply(arg.message, arg.history, now))
    /\ UNCHANGED <<service, arg, sessions>>

NextEngine ==
    \/ Tick
    \/ EvalTriageIntent
    \/ EvalClarifyingQuestions
    \/ EvalGenerateReply

SpecEngine == InitEngine /\ [][NextEngine]_vars

\* --------------------------------------------------------------------------
\* Properties
\* --------------------------------------------------------------------------
Mode == effective_auth_mode(settings)

\* the handler p leaves require_auth / get_or_create_user's write / the
\* endpoint function in this step
AuthStep(p) == pc[p] = "auth" /\ pc'[p] # "auth"

WriteStep(p) == pc[p] = "write" /\ pc'[p] # "write"

ChatStep(p) == pc[p] = "handler" /\ pc'[p] # "handler" /\ req[p].endpoint = "chat"

BearerOf(authorization) ==
    IF authorization # <<>> /\ authorization[1] \in {"Bearer", "bearer"}
    THEN authorization[2] ELSE NULL

\* C1: under any interleaving of concurrent get_or_create_user calls, the
\* users table never holds more than one row for the same uid.
C1_AtMostOneRowPerUid ==
    \A r1 \in users, r2 \in users : r1.uid = r2.uid => r1 = r2

\* two calls raced to create u1: one created the row, the other lost the
\* INSERT, and the table holds exactly one row of u1
C1_Witness ==
    /\ Mode = "firebase" /\ settings.dry_run
    /\ \E p \in Procs :
          /\ pc[p] = "done"
          /\ resp[p].status = 500
          /\ BearerOf(req[p].authorization) \in {"tokA", "tokA0"}
    /\ Cardinality(SelectByUid(users, "u1")) = 1

\* C2: when two calls for the same unseen uid both read 'absent' before either
\* inserts, both calls complete and return the UserRecord of that uid; neither
\* ends in an error.
C2_ConcurrentFirstSeenTolerated ==
    [][\A p \in Procs :
          (WriteStep(p) /\ ~loc[p].row) =>
              /\ pc'[p] = "handler"
              /\ auth'[p].user # <<>>
              /\ auth'[p].user[1].uid = loc[p].uid]_vars

\* the trial rows of the table: the window is [created_at, created_at +
\* trial_days], and trial_active is true inside it and false after it
TrialRowsOK ==
    \A r \in users :
        r.plan = "trial" =>
            LET u == _row_to_user(r)
            IN  /\ u.trial_ends_at = <<u.created_at + settings.trial_days>>
                /\ trial_active(u, u.created_at)
                /\ trial_active(u, now) <=> (now <= u.created_at + settings.trial_days)

C4_TrialActiveDefinition ==
    out # <<>> =>
        out[1] = (\/ arg.plan \in {"paid", "admin"}
                  \/ /\ arg.trial_ends_at # <<>>
                     /\ arg.t <= arg.trial_ends_at[1])

\* an admin whose trial timestamps are long past is still active
C4_Witness ==
    /\ out = <<TRUE>>
    /\ arg.plan = "admin" /\ arg.trial_ends_at = <<0>> /\ arg.t = 2

\* C5: trial enforcement applies only in firebase mode: in public and api_key
\* modes no POST /v1/chat is ever rejected with 402, whatever the users table
\* holds; in firebase mode a request whose user has trial_active false is
\* rejected with 402, error 'trial_expired' and that user's trial_ends_at.
C5_TrialEnforcedOnlyInFirebase ==
    [][\A p \in Procs :
          /\ Mode \in {"public", "api_key"} => resp'[p].status # 402
          /\ (Mode = "firebase" /\ ChatStep(p) /\ auth[p].user # <<>>) =>
                LET u == auth[p].user[1]
                IN  ~trial_active(u, now) =>
                        /\ pc'[p] = "done"
                        /\ resp'[p].status = 402
                        /\ resp'[p].error = "trial_expired"
                        /\ resp'[p].trial_ends_at =
                              (IF u.trial_ends_at = <<>> THEN <<>>
                               ELSE <<[iso |-> u.trial_ends_at[1]]>>)]_vars

\* an api_key deployment serves a chat while the table holds a user whose
\* trial ended a day ago
C5_Witness ==
    /\ Mode = "api_key"
    /\ \E r \in users : r.plan = "trial" /\ r.trial_ends_at = <<[iso |-> 1]>>
    /\ now = 2
    /\ \E p \in Procs :
          /\ pc[p] = "done" /\ req[p].endpoint = "chat" /\ resp[p].status = 200

C6_Marker(message) == "[dry_run] Received " \o ToString(Len(message)) \o " chars"

C6_Tails == {". Provide OPENAI_API_KEY to enable live calls."}

\* C6: with dry-run enabled, every POST /v1/chat that passes the auth gate and
\* the trial gate is answered with a text that begins with
\* '[dry_run] Received <len(message)> chars' and a null usage, and the provider
\* adapter is never constructed or called.
C6_DryRunNeverTouchesProvider ==
    [][settings.dry_run =>
          /\ provider' = 0
          /\ \A p \in Procs :
                /\ apiCalls'[p] = 0
                /\ pc'[p] # "generate"
                /\ (/\ ChatStep(p)
                    /\ Mode = "firebase" =>
                          (auth[p].user # <<>> /\ trial_active(auth[p].user[1], now))) =>
                      /\ resp'[p].status = 200
                      /\ \E tail \in C6_Tails :
                            resp'[p].text = C6_Marker(req[p].message) \o tail
                      /\ resp'[p].usage = NULL]_vars

\* a dry-run answer given without any provider key or provider instance
C6_Witness ==
    /\ settings.dry_run /\ settings.openai_api_key = "" /\ provider = 0
    /\ \E p \in Procs :
          /\ pc[p] = "done" /\ req[p].message = "Help us fund a pilot"
          /\ resp[p].status = 200
          /\ resp[p].text =
                "[dry_run] Received 20 chars. Provide OPENAI_API_KEY to enable live calls."
          /\ resp[p].usage = NULL

\* C7: in api_key mode with a configured secret, a request is authorized if
\* its bearer token or its X-API-Key header equals the secret, and rejected
\* with 401 if neither does, for every combination of the two headers.
C7_EitherHeaderAuthorizes ==
    (Mode = "api_key" /\ settings.api_key # "") =>
        \A p \in Procs :
            pc[p] \notin {"idle", "auth"} =>
                LET gate401 == /\ pc[p] = "done"
                               /\ resp[p].status = 401
                               /\ resp[p].error = "Unauthorized"
                IN  gate401 <=>
                        ~(\/ BearerOf(req[p].authorization) = settings.api_key
                          \/ req[p].x_api_key = settings.api_key)

ConfigFault ==
    \/ Mode = "api_key" /\ settings.api_key = ""
    \/ Mode \notin {"public", "api_key", "firebase"}

\* C8: with a configuration fault of the auth gate (api_key mode without a
\* secret, or an unknown effective auth mode) every authenticated endpoint
\* answers 500 and never 401, whatever credentials the request carries.
C8_ConfigFaultIs500 ==
    ConfigFault =>
        \A p \in Procs :
            /\ pc[p] \in {"idle", "auth", "done"}
            /\ pc[p] = "done" => resp[p].status = 500

\* api_key mode without a secret answers 500 to a request with no credential
C8_Witness ==
    /\ Mode = "api_key" /\ settings.api_key = ""
    /\ \E p \in Procs :
          /\ pc[p] = "done" /\ resp[p].status = 500
          /\ req[p].authorization = <<>> /\ req[p].x_api_key = NULL

\* the request carries nothing that verifies to a subject id
NoSubject(authorization) ==
    LET token == BearerOf(authorization)
    IN  \/ Falsy(token)
        \/ SdkVerify(token).raised
        \/ ~SdkVerify(token).has_uid
        \/ Falsy(SdkVerify(token).uid) /\ Falsy(SdkVerify(token).user_id)

\* C9: in firebase mode a request with no bearer token, an empty one, a token
\* the verifier fails on, or claims without a subject id is rejected with 401
\* and leaves the users table unchanged; get_or_create_user runs only after a
\* verification that yields a non-empty uid.
C9_UnverifiedNeverReachesUserStore ==
    [][Mode = "firebase" =>
          /\ \A p \in Procs :
                /\ (AuthStep(p) /\ NoSubject(req[p].authorization)) =>
                      /\ pc'[p] = "done"
                      /\ resp'[p].status = 401
                      /\ users' = users
                /\ pc'[p] \in {"select", "write"} =>
                      /\ ~NoSubject(req'[p].authorization)
                      /\ loc'[p].uid # ""
          /\ users' # users =>
                \E q \in Procs : WriteStep(q) /\ ~NoSubject(req[q].authorization)]_vars

\* a token whose claims have an empty uid was refused while the table held
\* a user
C9_Witness ==
    /\ Mode = "firebase" /\ users # {}
    /\ \E p \in Procs :
          /\ pc[p] = "done" /\ resp[p].status = 401
          /\ req[p].authorization = <<"Bearer", "tokN">>

\* C10: get_or_create_user on a uid that has a row changes in it only
\* last_seen_at and, where the supplied value is non-null, email and name;
\* with no email and no name everything but last_seen_at stays as it was.
C10_UpdateTouchesOnlyLastSeen ==
    [][\A p \in Procs :
          (WriteStep(p) /\ loc[p].row) =>
              LET l == loc[p]
                  old == SelectByUid(users, l.uid)
                  new == SelectByUid(users', l.uid)
              IN  /\ Cardinality(old) = 1
                  /\ Cardinality(new) = 1
                  /\ \A o \in old, n \in new :
                        /\ n = [o EXCEPT
                                  !.last_seen_at = [iso |-> l.now],
                                  !.email = IF l.email # NULL THEN l.email ELSE o.email,
                                  !.name = IF l.name # NULL THEN l.name ELSE o.name]
                        /\ (l.email = NULL /\ l.name = NULL) =>
                              n = [o EXCEPT !.last_seen_at = n.last_seen_at]]_vars

\* a call without email or name has just refreshed a row that keeps the
\* email and name of an earlier call
C10_Witness ==
    \E p \in Procs :
        /\ pc[p] = "handler"
        /\ req[p].authorization = <<"Bearer", "tokA0">>
        /\ ~loc[p].inserted
        /\ auth[p].user # <<>>
        /\ auth[p].user[1].email = "a@x" /\ auth[p].user[1].name = "Ann"
        /\ auth[p].user[1].last_seen_at > auth[p].user[1].created_at

\* the uids that have a row, and the rows of the other uids
Uids(tbl) == {r.uid : r \in tbl}

OtherRows(tbl, uid) == {r \in tbl : r.uid # uid}

\* C11: a user row appears only in the write of a get_or_create_user call
\* for its uid and is never deleted: the set of uids in the table only grows,
\* and a call for one uid leaves the rows of every other uid as they were.
C11_RowsOnlyAddedOthersUntouched ==
    [][/\ Uids(users) \subseteq Uids(users')
       /\ users' # users => \E p \in Procs : WriteStep(p)
       /\ \A p \in Procs :
             WriteStep(p) =>
                 /\ OtherRows(users', loc[p].uid) = OtherRows(users, loc[p].uid)
                 /\ Uids(users') \subseteq Uids(users) \cup {loc[p].uid}
                 /\ loc[p].row => Uids(users') = Uids(users)]_vars

\* a call for u1 has just refreshed its row on a later day, next to the
\* row of u2
C11_Witness ==
    \E p \in Procs :
        /\ pc[p] = "handler"
        /\ loc[p].uid = "u1" /\ ~loc[p].inserted /\ loc[p].now > 0
        /\ Uids(users) = {"u1", "u2"}

\* C12: a row of the users table has its trial timestamps set exactly when
\* it was created with trial_days > 0; then its plan is 'trial' and
\* trial_ends_at = trial_started_at + trial_days, otherwise its plan is
\* 'free' and both timestamps are null.
C12_TrialStampsIffTrialDays ==
    \A r \in users :
        /\ r.trial_ends_at # <<>> <=> settings.trial_days > 0
        /\ r.trial_started_at # <<>> <=> settings.trial_days > 0
        /\ settings.trial_days > 0 =>
              /\ r.plan = "trial"
              /\ r.trial_started_at[1].iso = r.created_at.iso
              /\ r.trial_ends_at[1].iso = r.trial_started_at[1].iso + settings.trial_days
        /\ settings.trial_days <= 0 => r.plan = "free"

\* a row created under a negative trial length
C12_Witness ==
    /\ settings.trial_days < 0
    /\ \E r \in users : r.plan = "free" /\ r.trial_ends_at = <<>> /\ r.created_at.iso > 0

\* the correlation id of the request p serves: the caller's X-Request-ID,
\* or else the identifier generated for it
CorrelationId(p) ==
    IF req[p].x_request_id # NULL THEN req[p].x_request_id ELSE uuid4(p)

\* C13: every response, success or failure, carries an X-Request-ID header
\* equal to the caller's X-Request-ID when one was supplied and to the
\* generated identifier otherwise.
C13_EveryResponseCarriesRequestId ==
    \A p \in Procs : pc[p] = "done" => hdr[p] = <<CorrelationId(p)>>

\* the handler p ends the await of provider.generate in this step
GenerateStep(p) == pc[p] = "generate" /\ pc'[p] # "generate"

\* the handler p calls provider.generate in this step
CallStep(p) == ChatStep(p) /\ pc'[p] = "generate"

\* C15: a POST /v1/chat calls the adapter at most once and the adapter calls
\* the external API at most once: a failed call is followed by no second
\* call, on either surface, and ends the request in a failure, never in a
\* 200.
C15_OneExternalCallNoRetry ==
    [][\A p \in Procs :
          /\ apiCalls'[p] <= 1
          /\ Len(extCalls'[p]) <= 1
          /\ GenerateStep(p) =>
                /\ (\E i \in DOMAIN extCalls'[p] : ~extCalls'[p][i].ok) =>
                      /\ resp'[p].status = 500
                      /\ resp'[p].text = ""
                /\ resp'[p].status = 200 =>
                      /\ Len(extCalls'[p]) = 1
                      /\ extCalls'[p][1].ok]_vars

\* the one call of the Responses surface failed, on an SDK client that has
\* the chat surface too, and the request ended in a 500
C15_Witness ==
    \E p \in Procs :
        /\ pc[p] = "done" /\ req[p].endpoint = "chat"
        /\ apiCalls[p] = 1
        /\ extCalls[p] = <<ExternalCall("responses", FALSE)>>
        /\ resp[p].status = 500

\* C16: the metadata passed to the adapter holds every key of the caller
\* with the caller's value; request_id (the correlation id) and, with a
\* firebase user resolved, user_id (its uid) are added exactly when the
\* caller sent no key of that name, and no user_id is added in public or
\* api_key mode.
C16_MetadataKeepsCallerKeys ==
    [][\A p \in Procs :
          CallStep(p) =>
              LET theirs == req[p].metadata
                  passed == call'[p].metadata
              IN  /\ passed # <<>>
                  /\ DOMAIN theirs \subseteq DOMAIN passed[1]
                  /\ \A k \in DOMAIN theirs : passed[1][k] = theirs[k]
                  /\ DOMAIN passed[1] \subseteq DOMAIN theirs \cup {"request_id", "user_id"}
                  /\ "request_id" \in DOMAIN passed[1]
                  /\ "request_id" \notin DOMAIN theirs =>
                        passed[1]["request_id"] = CorrelationId(p)
                  /\ "user_id" \notin DOMAIN theirs =>
                        IF auth[p].user # <<>>
                        THEN /\ "user_id" \in DOMAIN passed[1]
                             /\ passed[1]["user_id"] = auth[p].user[1].uid
                             /\ Mode = "firebase"
                        ELSE "user_id" \notin DOMAIN passed[1]]_vars

\* a firebase user's call whose caller sent its own request_id: the
\* caller's value is passed on, the user's uid is added
C16_Witness ==
    \E p \in Procs :
        /\ pc[p] = "generate"
        /\ req[p].metadata = [request_id |-> "mine"]
        /\ req[p].x_request_id = "rid-7"
        /\ call[p].metadata = <<[request_id |-> "mine", user_id |-> "u1"]>>

\* the positions of the prior turns that are not system turns
KeptTurns(turns) == {i \in DOMAIN turns : turns[i].role # "system"}

\* C17: the conversation passed to the adapter is the prior turns without
\* the system turns, in their order, followed by one user turn holding the
\* current message; no system turn is in it.
C17_ConversationDropsSystemTurns ==
    [][\A p \in Procs :
          CallStep(p) =>
              LET prior == req[p].messages
                  kept == KeptTurns(prior)
                  passed == call'[p].input_messages
              IN  /\ Len(passed) = Cardinality(kept) + 1
                  /\ passed[Len(passed)] = [role |-> "user", content |-> req[p].message]
                  /\ \A i \in kept :
                        passed[Cardinality({j \in kept : j <= i})] = prior[i]
                  /\ \A i \in DOMAIN passed : passed[i].role # "system"]_vars

\* a system turn ahead of an assistant turn: the assistant turn and the
\* current message are passed
C17_Witness ==
    \E p \in Procs :
        /\ pc[p] = "generate"
        /\ Len(req[p].messages) = 2
        /\ req[p].messages[1].role = "system"
        /\ req[p].messages[2].role = "assistant"
        /\ call[p].input_messages =
              <<req[p].messages[2], [role |-> "user", content |-> req[p].message]>>

\* a text with a character that is not whitespace
NonBlank(text) == \E i \in 1..Len(text) : SubSeq(text, i, i) \notin Whitespace

\* a fragment the extraction gets no visible text from
SilentFragment(c) ==
    \/ c.type \notin {"output_text", "text"}
    \/ c.text = <<>>
    \/ ~NonBlank(c.text[1])

\* the answer of the surface generate uses holds no text: a blank
\* convenience text, or none and no output, or only fragments of other
\* types or without text; on the legacy surface, no or blank content
NoExtractableText(client) ==
    IF client.has_responses
    THEN LET r == client.responses.resp
         IN  IF r.output_text \notin {<<>>, <<"">>} THEN ~NonBlank(r.output_text[1])
             ELSE \/ r.output.kind # "list"
                  \/ \A i \in DOMAIN r.output.items :
                        \A j \in DOMAIN r.output.items[i] :
                            SilentFragment(r.output.items[i][j])
    ELSE LET c == client.chat.cc.choices[1].content
         IN  c = <<>> \/ ~NonBlank(c[1])

\* C14: the adapter never returns an empty or whitespace-only text: on
\* either surface, an answer whose extracted text is empty after trimming
\* yields the literal "(No response.)", and only such an answer does.
C14_NeverEmptyText ==
    (out # <<>> /\ arg.fn = "generate" /\ ~out[1].raised) =>
        /\ NonBlank(out[1].text)
        /\ NoExtractableText(arg.client) <=> out[1].text = "(No response.)"

\* the Responses answer holds only a fragment of an unrecognized type, with
\* text in it, and the adapter returned the placeholder
C14_Witness ==
    /\ out # <<>> /\ arg.fn = "generate" /\ ~out[1].raised
    /\ arg.client.has_responses
    /\ arg.client.responses.resp.output_text = <<>>
    /\ arg.client.responses.resp.output =
          Output("list", <<<<[type |-> "refusal", text |-> <<"ok">>]>>>>)
    /\ out[1].text = "(No response.)"

\* the text k occurs in the text m, and where it first does
Occurrences(m, k) == {i \in 1..(Len(m) - Len(k) + 1) : SubSeq(m, i, i + Len(k) - 1) = k}

Contains(m, k) == Occurrences(m, k) # {}

FirstAt(m, k) == CHOOSE i \in Occurrences(m, k) : \A j \in Occurrences(m, k) : i <= j

\* the documents of the list that are not blank, as positions in the list
NonBlankAt(extra_docs) == {i \in DOMAIN extra_docs : NonBlank(extra_docs[i])}

BeginMarker(i) == "--- Context Document " \o ToString(i) \o " ---"

EndMarker(i) == "--- End Context Document " \o ToString(i) \o " ---"

\* C18: default_system_prompt skips the blank documents, wraps the others,
\* in input order, in begin and end markers numbered 1..k, puts the
\* documents header in exactly when k >= 1, and gives the base prompt
\* unchanged for an empty or all-blank list.
C18_DocumentsNumberedInOrder ==
    (out # <<>> /\ arg.fn = "default_system_prompt") =>
        LET docs == arg.extra_docs
            kept == NonBlankAt(docs)
            k == Cardinality(kept)
            nth(i) == CHOOSE j \in kept : Cardinality({x \in kept : x <= j}) = i
            text == out[1]
        IN  /\ SubSeq(text, 1, Len(BasePrompt)) = BasePrompt
            /\ k = 0 <=> text = BasePrompt
            /\ k >= 1 <=> Contains(text, "Reference documents")
            /\ k >= 1 => SubSeq(text, 1, Len(BasePrompt \o ReferenceHeader))
                             = BasePrompt \o ReferenceHeader
            /\ \A i \in 1..(MaxDocs + 1) :
                  /\ Contains(text, BeginMarker(i)) <=> i <= k
                  /\ Contains(text, EndMarker(i)) <=> i <= k
            /\ \A i \in 1..k :
                  /\ Cardinality(Occurrences(text, BeginMarker(i))) = 1
                  /\ Contains(text, BeginMarker(i) \o "\n" \o strip(docs[nth(i)])
                                        \o "\n" \o EndMarker(i))
                  /\ i < k => FirstAt(text, EndMarker(i)) < FirstAt(text, BeginMarker(i + 1))

\* a blank document ahead of two others: they are numbered 1 and 2
C18_Witness ==
    /\ out # <<>> /\ arg.fn = "default_system_prompt"
    /\ arg.extra_docs = <<" \n", " beta ", "alpha">>
    /\ Contains(out[1], "--- Context Document 1 ---\nbeta\n--- End Context Document 1 ---")
    /\ Contains(out[1], "--- Context Document 2 ---\nalpha\n--- End Context Document 2 ---")

\* the categories in the order they are tried, each with its keywords
Priority == <<"funding", "commercialization", "policy", "research", "partnership">>

KeywordsOf(category) ==
    CASE category = "funding" -> FundingKeywords
      [] category = "commercialization" -> CommercializationKeywords
      [] category = "policy" -> PolicyKeywords
      [] category = "research" -> ResearchKeywords
      [] category = "partnership" -> PartnershipKeywords

\* the positions in Priority of the categories a keyword of which occurs
\* in the lower-cased message
Matching(message) ==
    {i \in DOMAIN Priority :
        \E j \in DOMAIN KeywordsOf(Priority[i]) :
            Contains(lower(message), KeywordsOf(Priority[i])[j])}

\* C19: the classifier gives every message exactly one of the six labels:
\* the first category, in the order funding, commercialization, policy,
\* research, partnership, with a keyword in the message, and general when
\* no keyword is in it; 'grant' together with 'startup' is funding.
C19_FirstMatchingCategory ==
    (out # <<>> /\ arg.fn = "_triage_intent") =>
        LET hit == Matching(arg.message)
        IN  /\ out[1] \in Intents
            /\ hit = {} <=> out[1] = "general"
            /\ hit # {} =>
                  \E i \in hit : /\ out[1] = Priority[i]
                                  /\ \A j \in hit : i <= j
            /\ (Contains(lower(arg.message), "grant")
                    /\ Contains(lower(arg.message), "startup")) => out[1] = "funding"

\* a message with a commercialization keyword ahead of a funding keyword
C19_Witness ==
    /\ out = <<"funding">>
    /\ arg.fn = "_triage_intent"
    /\ arg.message = "Startup grant"

\* C20: the clarifying questions are the questions of the intent, in their
\* order, then the general questions in theirs, cut to five: two and the
\* first three general ones for an intent other than general, the four
\* general ones for general.
C20_SpecificThenGeneralCutToFive ==
    (out # <<>> /\ arg.fn = "_clarifying_questions") =>
        LET questions == out[1]
            specific == by_intent(arg.intent)
        IN  /\ Len(questions) <= 5
            /\ arg.intent \in Intents \ {"general"} =>
                  /\ Len(specific) = 2
                  /\ questions = <<specific[1], specific[2], common[1], common[2], common[3]>>
            /\ arg.intent \notin Intents \ {"general"} => questions = common
            /\ Len(common) = 4

\* the five questions of the policy intent
C20_Witness ==
    /\ arg.fn = "_clarifying_questions" /\ arg.intent = "policy"
    /\ out # <<>>
    /\ Len(out[1]) = 5
    /\ out[1][2] = "Are there specific regulations or standards you must meet?"
    /\ out[1][5] = "What stage are you at (idea, prototype, pilot, scale)?"

\* C21: two generate_reply calls with the same message and history, made
\* at different times, return the same answer and the same metadata.
C21_SameInputSameReply ==
    (arg.fn = "generate_reply" /\ Len(out) = 2) => out[1] = out[2]

\* C30: a message that is exactly one keyword of a category is classified
\* as that category.
C30_EveryKeywordEffective ==
    (out # <<>> /\ arg.fn = "_triage_intent") =>
        \A i \in DOMAIN Priority :
            arg.message \in Range(KeywordsOf(Priority[i])) => out[1] = Priority[i]

\* the chat of handler p has passed trial enforcement and is not a dry run
LiveChat(p) ==
    /\ ChatStep(p)
    /\ ~settings.dry_run
    /\ _enforce_trial(auth[p], now).status = 0

\* C22: the provider is built lazily and cached: a live chat that finds no
\* cached provider tries to build one, a failed attempt caches nothing, a
\* cached provider is reused by every later request and never replaced, so
\* at most one provider is ever built.
C22_ProviderBuiltOnceAndCached ==
    [][/\ provider' \in {0, 1}
       /\ provider # 0 => provider' = provider
       /\ provider' # provider => \E p \in Procs : LiveChat(p)
       /\ \A p \in Procs :
             (LiveChat(p) /\ provider = 0) =>
                 IF settings.openai_api_key # ""
                 THEN provider' = 1 /\ pc'[p] = "generate"
                 ELSE provider' = 0 /\ Unhandled(resp'[p])]_vars

\* startup left no provider behind: one handler has had it built and waits
\* for the adapter, the other now calls the adapter on the cached provider
C22_Witness ==
    /\ provider = 1
    /\ \A p \in Procs : pc[p] = "generate" /\ apiCalls[p] = 1
    /\ users # {}
    /\ \A r \in users : r.created_at.iso = 0 /\ r.last_seen_at.iso = 0
    /\ now = 0

\* C23: trial enforcement comes before the dry-run short-circuit and the
\* provider: the chat of a firebase user whose trial is over is answered 402,
\* with dry-run on as with dry-run off, and neither builds nor calls a
\* provider.
C23_TrialGateBeforeDryRun ==
    [][\A p \in Procs :
          (ChatStep(p) /\ Mode = "firebase" /\ auth[p].user # <<>>
              /\ ~trial_active(auth[p].user[1], now)) =>
                  /\ pc'[p] = "done"
                  /\ resp'[p].status = 402 /\ resp'[p].error = "trial_expired"
                  /\ provider' = provider
                  /\ apiCalls'[p] = 0 /\ extCalls'[p] = <<>> /\ ~call'[p].made]_vars

\* a dry-run deployment has answered 402 to a user whose trial ended
C23_Witness ==
    /\ Mode = "firebase" /\ settings.dry_run /\ settings.trial_days = 1
    /\ provider = 0
    /\ \E p \in Procs :
          /\ pc[p] = "done" /\ req[p].endpoint = "chat"
          /\ resp[p].status = 402 /\ resp[p].trial_ends_at = <<[iso |-> 0 + 1]>>

\* the uid a firebase deployment resolves the request of handler p to
UidOf(p) == firebase_identity(req[p].authorization).uid

\* C28: get_or_create_user never changes plan, trial_started_at or
\* trial_ends_at of a row that exists, so a trial is not extended by
\* authenticating again: while a 402 trial_expired sent to a uid with plan
\* 'trial' stands, every chat of that uid is answered 402 as well.
C28_TrialNeverExtended ==
    [][/\ \A r \in users :
             \E n \in users' :
                 /\ n.uid = r.uid /\ n.plan = r.plan
                 /\ n.trial_started_at = r.trial_started_at
                 /\ n.trial_ends_at = r.trial_ends_at
       /\ \A p \in Procs, q \in Procs :
             (/\ q # p /\ ChatStep(p) /\ Mode = "firebase"
              /\ pc[q] = "done" /\ req[q].endpoint = "chat"
              /\ resp[q].status = 402 /\ resp[q].error = "trial_expired"
              /\ resp[q].trial_ends_at # <<>>
              /\ UidOf(q) = UidOf(p)) =>
                 /\ resp'[p].status = 402 /\ resp'[p].error = "trial_expired"
                 /\ resp'[p].trial_ends_at = resp[q].trial_ends_at]_vars

\* the uid was told 402, authenticated again (its row refreshed on day 2)
\* and was told 402 again, with the same end of trial
C28_Witness ==
    /\ \A p \in Procs :
          /\ pc[p] = "done" /\ resp[p].status = 402
          /\ resp[p].trial_ends_at = <<[iso |-> 1]>>
    /\ \E p \in Procs, q \in Procs : started[q] < started[p]
    /\ \E r \in users : r.last_seen_at.iso = 2 /\ r.plan = "trial"

\* C29: with trial_days <= 0 a created user has plan 'free' and no
\* trial_ends_at; in firebase mode each of its chats, the first included,
\* is answered 402 trial_expired with a null trial_ends_at, and its
\* GET /v1/me succeeds.
C29_NoTrialMeansNoChat ==
    [][\A p \in Procs :
          (Mode = "firebase" /\ settings.trial_days <= 0
              /\ pc[p] = "handler" /\ pc'[p] # "handler") =>
                  /\ auth[p].user # <<>>
                  /\ auth[p].user[1].plan = "free"
                  /\ auth[p].user[1].trial_ends_at = <<>>
                  /\ req[p].endpoint = "chat" =>
                        /\ resp'[p].status = 402 /\ resp'[p].error = "trial_expired"
                        /\ resp'[p].trial_ends_at = <<>>
                        /\ pc'[p] = "done"
                  /\ req[p].endpoint = "me" =>
                        /\ resp'[p].status = 200
                        /\ resp'[p].user # <<>>
                        /\ resp'[p].user[1].plan = "free"
                        /\ ~resp'[p].user[1].trial_active]_vars

\* the first chat of a user created without a trial was answered 402
C29_Witness ==
    /\ Mode = "firebase" /\ settings.trial_days = 0
    /\ \E r \in users : r.plan = "free" /\ r.created_at = r.last_seen_at
    /\ Cardinality(users) = 1
    /\ \E p \in Procs :
          /\ pc[p] = "done" /\ req[p].endpoint = "chat"
          /\ resp[p].status = 402 /\ resp[p].trial_ends_at = <<>>

\* the non-blank context documents of a request, stripped, in input order
Documents(rq) ==
    LET kept == SelectSeq(rq.context_documents, LAMBDA d : NonBlank(d))
    IN  [i \in DOMAIN kept |-> strip(kept[i])]

\* the system-role turns of a request, joined
Notes(rq) ==
    LET notes == SelectSeq(rq.messages, LAMBDA m : m.role = "system")
    IN  strip(JoinWith("\n\n", [i \in DOMAIN notes |-> notes[i].content]))

EndsWith(text, tail) ==
    Len(tail) <= Len(text) /\ SubSeq(text, Len(text) - Len(tail) + 1, Len(text)) = tail

\* C24: the instructions of every chat that reaches the provider hold each
\* non-blank context document inside its numbered markers and end with the
\* system-role turns under 'Additional system notes:', with a system_prompt
\* override in the request as without one.
C24_InstructionsHoldDocumentsThenNotes ==
    \A p \in Procs :
        call[p].made =>
            /\ \A i \in DOMAIN Documents(req[p]) :
                  Contains(call[p].system_prompt, ContextDocument(i, Documents(req[p])[i]))
            /\ Notes(req[p]) # "" =>
                  EndsWith(call[p].system_prompt, AdditionalNotesHeader \o Notes(req[p]))

\* handler p of the session service ends a request in this step
Ends(p) ==
    /\ chat_pc'[p] = "done"
    /\ <<chat_pc[p], body[p], chat_response[p]>> # <<chat_pc'[p], body'[p], chat_response'[p]>>

\* C25: session service: each stored session holds at most
\* SESSION_MAX_MESSAGES messages, for every configured value, 0 included, and
\* a request that ends in an error leaves the session store as it was.
C25_SessionsBoundedErrorsWriteNothing ==
    [][/\ \A id \in DOMAIN _SESSIONS' :
             Len(_SESSIONS'[id]) <= environ.SESSION_MAX_MESSAGES
       /\ \A p \in Procs :
             (Ends(p) /\ chat_response'[p].status # 200) => _SESSIONS' = _SESSIONS]_vars

\* C26: session service: the message list sent to the provider begins with
\* the fixed SYSTEM_PROMPT, whatever the stored session and the request hold.
C26_ProviderMessagesBeginWithSystemPrompt ==
    \A p \in Procs :
        frame[p].sent =>
            /\ frame[p].provider_messages # <<>>
            /\ frame[p].provider_messages[1] = ChatMessage("system", SYSTEM_PROMPT)

Count(xs, m) == Cardinality({i \in DOMAIN xs : xs[i] = m})

\* the messages a completed request adds to its session
Exchange(p) ==
    body[p].messages \o <<ChatMessage("assistant", chat_response[p].reply)>>

\* C27: session service: when two requests for the same session_id have both
\* completed, overlapping or not, the stored session (not truncated) holds
\* the messages and the replies of both.
C27_OverlappingRequestsBothKept ==
    \A p \in Procs, q \in Procs :
        (/\ p # q
         /\ chat_pc[p] = "done" /\ chat_pc[q] = "done"
         /\ chat_response[p].status = 200 /\ chat_response[q].status = 200
         /\ chat_response[p].session_id = chat_response[q].session_id
         /\ environ.SESSION_MAX_MESSAGES = 50) =>
            LET stored == _SESSIONS[chat_response[p].session_id]
                both == Exchange(p) \o Exchange(q)
            IN  \A i \in DOMAIN both : Count(stored, both[i]) >= Count(both, both[i])

====
